---- MODULE Spec2Model ----
(***************************************************************************)
(* Buddy allocator (buddy_init / buddy_alloc / buddy_free / buddy_dump).   *)
(*                                                                         *)
(* The allocator state is the page table g_pages, the free-list array      *)
(* free_area and the base address of the region g_memory.  Each call is    *)
(* one atomic step: the program is single-threaded and non-reentrant.      *)
(* A free list is the sequence of page indices met by walking the list     *)
(* from its head (list_add inserts right after the head).                  *)
(***************************************************************************)
EXTENDS Integers, Sequences, FiniteSets, TLC

(* ------------------------------------------------------------------ *)
(* Program constants                                                    *)
(* ------------------------------------------------------------------ *)
MIN_ORDER == 12
\* The number of orders above MIN_ORDER.  The program is built with
\* MAX_ORDER 20 (256 pages); the model keeps MIN_ORDER and explores regions
\* of 2^Levels pages, the code being the same for every MAX_ORDER.
Levels == 2
MAX_ORDER == MIN_ORDER + Levels
PAGE_SIZE == 2 ^ MIN_ORDER
n_pages == (2 ^ MAX_ORDER) \div PAGE_SIZE
NULL == 0

(* ------------------------------------------------------------------ *)
(* Bounds of the exploration                                            *)
(* ------------------------------------------------------------------ *)
\* the client holds at most MaxLive blocks at a time
MaxLive == 4
\* the count of calls made since buddy_init is kept up to NopsCap
NopsCap == 3

Pages == 0 .. (n_pages - 1)
Orders == MIN_ORDER .. MAX_ORDER

\* Addresses at which the linker may place g_memory: the array is a char
\* array, so it need not be aligned to its own size, and it is never at 0.
GMemoryBases == {2 ^ (MAX_ORDER + 1) + 4160}

\* Request sizes: for each order both ends of the range of sizes that
\* ceil(log2(size)) maps to it, and sizes beyond the region.
ValidSizes ==
    UNION {{2 ^ (r - 1) + 1, 2 ^ r} : r \in Orders}
        \cup {2 ^ MAX_ORDER + 1, 2 ^ (MAX_ORDER + 1)}
\* The sizes that are exactly a block size.
BlockSizes == {2 ^ r : r \in Orders}
\* Sub-page sizes, whose order is below MIN_ORDER.
SubPageSizes == {1, 2, 3, 2 ^ (MIN_ORDER - 1)}

VARIABLES
    g_memory,    \* base address of the region (char g_memory[1<<MAX_ORDER])
    blockOrder,  \* g_pages[i].blockOrder, per page
    free_area,   \* free lists, indexed by order
    status,      \* "ok", or "crashed" once a call has run into undefined behaviour
    live,        \* history: blocks returned by buddy_alloc and not yet freed
    ret,         \* history: the last call and its result
    prev,        \* history: the call before the last one (when kept)
    pre,         \* history: free_area before the last call (when kept)
    nops,        \* history: number of calls since buddy_init, up to NopsCap
    phase        \* history: "fill" until the first failed alloc, then "drain"

vars == <<g_memory, blockOrder, free_area, status, live, ret, prev, pre, nops, phase>>

(* ------------------------------------------------------------------ *)
(* Address arithmetic                                                   *)
(* ------------------------------------------------------------------ *)
RECURSIVE BitXor(_, _)
\* the C operator ^ on non-negative integers
BitXor(a, b) ==
    IF a = 0 /\ b = 0 THEN 0
    ELSE ((((a % 2) + (b % 2)) % 2) + (2 * BitXor(a \div 2, b \div 2)))

PAGE_TO_ADDR(page_idx) == (page_idx * PAGE_SIZE) + g_memory

ADDR_TO_PAGE(addr) == (addr - g_memory) \div PAGE_SIZE

\* a slip: the bit is flipped in the address, not in the offset from g_memory
BUDDY_ADDR_Absolute(addr, o) == BitXor(addr, 2 ^ o)

BUDDY_ADDR(addr, o) == BitXor(addr - g_memory, 2 ^ o) + g_memory

RECURSIVE FloorLog2(_)
\* a rounding slip: floor(log2(size)) in place of ceil(log2(size))
FloorLog2(size) == IF size < 2 THEN 0 ELSE 1 + FloorLog2(size \div 2)

RECURSIVE CeilLog2From(_, _)
CeilLog2From(size, r) == IF 2 ^ r >= size THEN r ELSE CeilLog2From(size, r + 1)

\* int block_order = ceil(log2(size)), for size >= 1
CeilLog2(size) == CeilLog2From(size, 0)

(* ------------------------------------------------------------------ *)
(* The list library, on sequences of page indices                       *)
(* ------------------------------------------------------------------ *)
\* buddy_init runs INIT_LIST_HEAD on the heads of order MIN_ORDER..MAX_ORDER
\* only; the heads below MIN_ORDER stay zero-filled (next = prev = NULL).
HeadInitialised(i) == i \in Orders

\* list_empty(head) is head->next == head: false on a zero-filled head
list_empty(fa, i) == HeadInitialised(i) /\ fa[i] = <<>>

\* list_add(new, head): insert right after the head
list_add(fa, page, i) == [fa EXCEPT ![i] = <<page>> \o @]

\* list_del(entry): unlink the entry from the list it is on
list_del(fa, page) ==
    [k \in DOMAIN fa |-> SelectSeq(fa[k], LAMBDA x : x # page)]

\* a slip: the scan for the buddy looks at the first entry only
OnList_HeadOnly(fa, page, i) == fa[i] # <<>> /\ Head(fa[i]) = page

OnList(fa, page, i) == \E n \in 1 .. Len(fa[i]) : fa[i][n] = page

(* ------------------------------------------------------------------ *)
(* buddy_init                                                           *)
(* ------------------------------------------------------------------ *)
\* g_pages[i].blockAddress = PAGE_TO_ADDR(i): set once, never assigned again
blockAddress(i) == PAGE_TO_ADDR(i)

\* g_pages[i].blockOrder = -1
InitBlockOrder == [i \in Pages |-> -1]

\* a slip: the region is put on the list of the lowest order
InitFreeArea_MinOrder ==
    [i \in 0 .. MAX_ORDER |-> IF i = MIN_ORDER THEN <<0>> ELSE <<>>]

InitFreeArea ==
    [i \in 0 .. MAX_ORDER |-> IF i = MAX_ORDER THEN <<0>> ELSE <<>>]

(* ------------------------------------------------------------------ *)
(* buddy_alloc                                                          *)
(* ------------------------------------------------------------------ *)
\* a slip: only the list of the requested order is looked at
FirstNonEmpty_NoScan(fa, i) ==
    IF i <= MAX_ORDER /\ ~list_empty(fa, i) THEN i ELSE -1

\* a slip: the scan runs from MAX_ORDER down and settles on the largest block
FirstNonEmpty_FromTop(fa, i) ==
    LET S == {k \in i .. MAX_ORDER : ~list_empty(fa, k)}
    IN  IF S = {} THEN -1 ELSE CHOOSE k \in S : \A m \in S : m <= k

RECURSIVE FirstNonEmpty(_, _)
\* for (i = block_order; i <= MAX_ORDER; i++) if (!list_empty(&free_area[i]))
\* the first order whose list is not empty, or -1 when the loop runs out
FirstNonEmpty(fa, i) ==
    IF i > MAX_ORDER THEN -1
    ELSE IF ~list_empty(fa, i) THEN i
    ELSE FirstNonEmpty(fa, i + 1)

\* a slip: the right halves are never put on a free list
Split_DropRight(fa, pg, left, j, block_order) == [fa |-> fa, pg |-> pg]

RECURSIVE Split_SameOrder(_, _, _, _, _)
\* a slip: the right half goes on list j, not on list j-1
Split_SameOrder(fa, pg, left, j, block_order) ==
    IF j = block_order THEN [fa |-> fa, pg |-> pg]
    ELSE LET right == ADDR_TO_PAGE(BUDDY_ADDR(blockAddress(left), j - 1))
         IN  Split_SameOrder(list_add(fa, right, j),
                             [pg EXCEPT ![right] = j - 1],
                             left, j - 1, block_order)

RECURSIVE Split(_, _, _, _, _)
\* for (j = i; j != block_order; j--): the right half of the block at order
\* j-1 gets that order and goes on list j-1; left keeps its address
Split(fa, pg, left, j, block_order) ==
    IF j = block_order THEN [fa |-> fa, pg |-> pg]
    ELSE LET right == ADDR_TO_PAGE(BUDDY_ADDR(blockAddress(left), j - 1))
         IN  Split(list_add(fa, right, j - 1),
                   [pg EXCEPT ![right] = j - 1],
                   left, j - 1, block_order)

\* a slip: the block handed out stays on its free list
TakeBlock_NoDel(fa, left) == fa

\* The block the scan settles on is taken off its list: list_del(&left->list)
TakeBlock(fa, left) == list_del(fa, left)

\* a slip: left->blockOrder = block_order is left out
AllocResult_NoOrder(fa, pg, size) ==
    LET block_order == CeilLog2(size)
        i == FirstNonEmpty(fa, block_order)
    IN  IF block_order > MAX_ORDER \/ i = -1
        THEN [addr |-> NULL, order |-> block_order, ub |-> FALSE,
              fa |-> fa, pg |-> pg]
        ELSE IF ~HeadInitialised(i)
        THEN [addr |-> NULL, order |-> block_order, ub |-> TRUE,
              fa |-> fa, pg |-> pg]
        ELSE LET left == Head(fa[i])
                 s == Split(TakeBlock(fa, left), pg, left, i, block_order)
             IN  [addr |-> blockAddress(left), order |-> block_order,
                  ub |-> FALSE, fa |-> s.fa, pg |-> s.pg]

\* a slip: break in place of return, so that the call falls through to
\* the return NULL after the loop once the block is taken and split
AllocResult_Break(fa, pg, size) ==
    LET block_order == CeilLog2(size)
        i == FirstNonEmpty(fa, block_order)
    IN  IF block_order > MAX_ORDER \/ i = -1
        THEN [addr |-> NULL, order |-> block_order, ub |-> FALSE,
              fa |-> fa, pg |-> pg]
        ELSE IF ~HeadInitialised(i)
        THEN [addr |-> NULL, order |-> block_order, ub |-> TRUE,
              fa |-> fa, pg |-> pg]
        ELSE LET left == Head(fa[i])
                 s == Split(TakeBlock(fa, left),
                            [pg EXCEPT ![left] = block_order],
                            left, i, block_order)
             IN  [addr |-> NULL, order |-> block_order,
                  ub |-> FALSE, fa |-> s.fa, pg |-> s.pg]

\* The result of buddy_alloc(size) on lists fa and page table pg:
\*   addr: the value returned (NULL on failure), order: block_order,
\*   ub: the call dereferenced the entry of a zero-filled list head.
AllocResult(fa, pg, size) ==
    LET block_order == CeilLog2(size)
        i == FirstNonEmpty(fa, block_order)
    IN  IF block_order > MAX_ORDER
        THEN [addr |-> NULL, order |-> block_order, ub |-> FALSE,
              fa |-> fa, pg |-> pg]
        ELSE IF i = -1
        THEN [addr |-> NULL, order |-> block_order, ub |-> FALSE,
              fa |-> fa, pg |-> pg]
        ELSE IF ~HeadInitialised(i)
        THEN \* free_area[i].next is NULL: left = list_entry(NULL, ...) and
             \* left->blockOrder = block_order writes through a null pointer
             [addr |-> NULL, order |-> block_order, ub |-> TRUE,
              fa |-> fa, pg |-> pg]
        ELSE LET left == Head(fa[i])
                 pg1 == [pg EXCEPT ![left] = block_order]
                 fa1 == TakeBlock(fa, left)
                 s == Split(fa1, pg1, left, i, block_order)
             IN  [addr |-> blockAddress(left), order |-> block_order,
                  ub |-> FALSE, fa |-> s.fa, pg |-> s.pg]

RECURSIVE ScanSteps(_, _)
\* the iterations of for (i = block_order; i <= MAX_ORDER; i++), which
\* ends at the first list that is not empty
ScanSteps(fa, i) ==
    IF i > MAX_ORDER THEN 0
    ELSE IF ~list_empty(fa, i) THEN 1
    ELSE 1 + ScanSteps(fa, i + 1)

RECURSIVE SplitSteps(_, _)
\* the iterations of for (j = i; j != block_order; j--)
SplitSteps(j, block_order) ==
    IF j = block_order THEN 0 ELSE 1 + SplitSteps(j - 1, block_order)

\* the loop iterations of buddy_alloc(size) on lists fa
AllocSteps(fa, size) ==
    LET block_order == CeilLog2(size)
        i == FirstNonEmpty(fa, block_order)
    IN  IF block_order > MAX_ORDER THEN [loop |-> 0, inner |-> 0]
        ELSE [loop |-> ScanSteps(fa, block_order),
              inner |-> IF i = -1 THEN 0 ELSE SplitSteps(i, block_order)]

(* ------------------------------------------------------------------ *)
(* buddy_free                                                           *)
(* ------------------------------------------------------------------ *)
\* a slip: the merge loop stops one order early
MergeContinues_OffByOne(i) == i < MAX_ORDER - 1

\* while (i < MAX_ORDER && isFree): the loop goes on to the next order
MergeContinues(i) == i < MAX_ORDER

RECURSIVE Merge_KeepPage(_, _, _, _)
\* a slip: the merged block keeps the freed page as its head
Merge_KeepPage(fa, pg, freePage, i) ==
    LET buddy == ADDR_TO_PAGE(BUDDY_ADDR(blockAddress(freePage), i))
    IN  IF MergeContinues(i) /\ OnList(fa, buddy, i)
        THEN Merge_KeepPage(list_del(fa, buddy), pg, freePage, i + 1)
        ELSE [fa |-> list_add(fa, freePage, i),
              pg |-> [pg EXCEPT ![freePage] = i]]

RECURSIVE Merge_NoDel(_, _, _, _)
\* a slip: the buddy found free is left on its list
Merge_NoDel(fa, pg, freePage, i) ==
    LET buddy == ADDR_TO_PAGE(BUDDY_ADDR(blockAddress(freePage), i))
    IN  IF MergeContinues(i) /\ OnList(fa, buddy, i)
        THEN Merge_NoDel(fa, pg,
                         IF freePage > buddy THEN buddy ELSE freePage, i + 1)
        ELSE [fa |-> list_add(fa, freePage, i),
              pg |-> [pg EXCEPT ![freePage] = i]]

RECURSIVE Merge(_, _, _, _)
\* the merge loop, then freePage->blockOrder = i and list_add
Merge(fa, pg, freePage, i) ==
    LET buddy == ADDR_TO_PAGE(BUDDY_ADDR(blockAddress(freePage), i))
    IN  IF MergeContinues(i) /\ OnList(fa, buddy, i)
        THEN Merge(list_del(fa, buddy), pg,
                   IF freePage > buddy THEN buddy ELSE freePage, i + 1)
        ELSE [fa |-> list_add(fa, freePage, i),
              pg |-> [pg EXCEPT ![freePage] = i]]

\* The result of buddy_free(addr) on lists fa and page table pg
FreeResult(fa, pg, addr) ==
    LET freePage == ADDR_TO_PAGE(addr)
    IN  Merge(fa, pg, freePage, pg[freePage])

RECURSIVE MergeSteps_ScanAll(_, _, _)
\* a slip: the buddy is looked for on every free list, not on list i alone
MergeSteps_ScanAll(fa, freePage, i) ==
    LET buddy == ADDR_TO_PAGE(BUDDY_ADDR(blockAddress(freePage), i))
        all == Cardinality(UNION {{<<k, n>> : n \in 1 .. Len(fa[k])}
                                     : k \in MIN_ORDER .. MAX_ORDER})
    IN  IF ~MergeContinues(i) THEN [loop |-> 0, inner |-> 0]
        ELSE IF OnList(fa, buddy, i)
        THEN LET rest == MergeSteps_ScanAll(list_del(fa, buddy),
                     IF freePage > buddy THEN buddy ELSE freePage, i + 1)
             IN  [loop |-> 1 + rest.loop, inner |-> all + rest.inner]
        ELSE [loop |-> 1, inner |-> all]

RECURSIVE MergeSteps(_, _, _)
\* the loop iterations of buddy_free from order i on: the while loop, and
\* list_for_each, which walks the whole of list i at each turn (no break)
MergeSteps(fa, freePage, i) ==
    LET buddy == ADDR_TO_PAGE(BUDDY_ADDR(blockAddress(freePage), i))
    IN  IF ~MergeContinues(i) THEN [loop |-> 0, inner |-> 0]
        ELSE IF OnList(fa, buddy, i)
        THEN LET rest == MergeSteps(list_del(fa, buddy),
                     IF freePage > buddy THEN buddy ELSE freePage, i + 1)
             IN  [loop |-> 1 + rest.loop, inner |-> Len(fa[i]) + rest.inner]
        ELSE [loop |-> 1, inner |-> Len(fa[i])]

(* ------------------------------------------------------------------ *)
(* buddy_dump                                                           *)
(* ------------------------------------------------------------------ *)
\* the count printed for each order
buddy_dump(fa) == [o \in Orders |-> Len(fa[o])]

(* ------------------------------------------------------------------ *)
(* The state machine                                                    *)
(* ------------------------------------------------------------------ *)
NoCall == [op |-> "init", size |-> 0, addr |-> NULL, order |-> -1]

\* the state right after buddy_init()
Init ==
    /\ g_memory \in GMemoryBases
    /\ blockOrder = InitBlockOrder
    /\ free_area = InitFreeArea
    /\ status = "ok"
    /\ live = {}
    /\ ret = NoCall
    /\ prev = NoCall
    /\ pre = InitFreeArea
    /\ nops = 0
    /\ phase = "fill"

Count == IF nops < NopsCap THEN nops + 1 ELSE nops

\* A call of buddy_alloc(size).  keep: whether the history of the call
\* before is kept.  A call that runs into undefined behaviour ends the
\* process with a fault, or carries on with a value that is not described.
Alloc(size, keep) ==
    /\ status = "ok"
    /\ LET r == AllocResult(free_area, blockOrder, size)
       IN  /\ r.addr = NULL \/ Cardinality(live) < MaxLive
           /\ free_area' = r.fa
           /\ blockOrder' = r.pg
           /\ status' \in (IF r.ub THEN {"crashed", "undefined"} ELSE {"ok"})
           /\ live' = IF r.addr = NULL THEN live
                      ELSE live \cup {[addr |-> r.addr, order |-> r.order]}
           /\ \E a \in (IF r.ub /\ status' = "undefined"
                        THEN {NULL, g_memory + 1} ELSE {r.addr}) :
                  ret' = [op |-> "alloc", size |-> size, addr |-> a,
                          order |-> r.order]
           /\ phase' = IF phase = "fill" /\ r.addr # NULL THEN "fill"
                       ELSE IF phase = "fill" /\ size <= 2 ^ MAX_ORDER
                                /\ ~r.ub THEN "drain"
                       ELSE "mixed"
    /\ prev' = IF keep THEN ret ELSE NoCall
    /\ pre' = IF keep THEN free_area ELSE InitFreeArea
    /\ nops' = Count
    /\ UNCHANGED g_memory

\* A call of buddy_free(addr) on a block that buddy_alloc returned and that
\* has not been freed since.
Free(b, keep) ==
    /\ status = "ok"
    /\ b \in live
    /\ LET r == FreeResult(free_area, blockOrder, b.addr)
       IN  /\ free_area' = r.fa
           /\ blockOrder' = r.pg
    /\ live' = live \ {b}
    /\ ret' = [op |-> "free", size |-> 0, addr |-> b.addr,
               order |-> blockOrder[ADDR_TO_PAGE(b.addr)]]
    /\ phase' = IF phase = "drain" THEN "drain" ELSE "mixed"
    /\ prev' = IF keep THEN ret ELSE NoCall
    /\ pre' = IF keep THEN free_area ELSE InitFreeArea
    /\ nops' = Count
    /\ UNCHANGED <<g_memory, status>>

\* alloc and free calls under valid use, requests of at least a page
Next ==
    \/ \E size \in ValidSizes : Alloc(size, FALSE)
    \/ \E b \in live : Free(b, FALSE)

Spec == Init /\ [][Next]_vars

\* the same calls, with the history of the last two calls kept
NextPair ==
    \/ \E size \in BlockSizes : Alloc(size, TRUE)
    \/ \E b \in live : Free(b, TRUE)

SpecPair == Init /\ [][NextPair]_vars

\* the same calls, with requests of less than a page as well
NextAnySize ==
    \/ \E size \in ValidSizes \cup SubPageSizes : Alloc(size, FALSE)
    \/ \E b \in live : Free(b, FALSE)

SpecAnySize == Init /\ [][NextAnySize]_vars

TypeOK ==
    /\ status \in {"ok", "crashed", "undefined"}
    /\ nops \in 0 .. NopsCap
    /\ phase \in {"fill", "drain", "mixed"}
    /\ \A p \in Pages : blockOrder[p] \in {-1} \cup Orders


(* ------------------------------------------------------------------ *)
(* Notions the properties are stated in                                 *)
(* ------------------------------------------------------------------ *)
LiveAddrs == {b.addr : b \in live}

\* the set of blocks on each free list
ListSets(fa) == [k \in Orders |-> {fa[k][n] : n \in 1 .. Len(fa[k])}]

\* the pages of the block of order k headed by page p
BlockPages(p, k) == p .. (p + 2 ^ (k - MIN_ORDER) - 1)

\* the entries of the free lists: <<order, position>>
FreeEntries(fa) == UNION {{<<k, n>> : n \in 1 .. Len(fa[k])} : k \in Orders}

\* the number of blocks, free or allocated, that page q lies in
Covers(q) ==
    Cardinality({e \in FreeEntries(free_area) :
                    q \in BlockPages(free_area[e[1]][e[2]], e[1])})
    + Cardinality({b \in live : q \in BlockPages(ADDR_TO_PAGE(b.addr), b.order)})

RECURSIVE FreeBytesFrom(_, _)
FreeBytesFrom(fa, k) ==
    IF k > MAX_ORDER THEN 0 ELSE (Len(fa[k]) * (2 ^ k)) + FreeBytesFrom(fa, k + 1)

\* the number of bytes on the free lists
FreeBytes(fa) == FreeBytesFrom(fa, MIN_ORDER)

InRegion(addr) == g_memory <= addr /\ addr < g_memory + 2 ^ MAX_ORDER

\* one block on the MAX_ORDER list, headed by page 0, and nothing else
SingleMaxBlock(fa) ==
    ListSets(fa) = [k \in Orders |-> IF k = MAX_ORDER THEN {0} ELSE {}]
    /\ buddy_dump(fa) = [k \in Orders |-> IF k = MAX_ORDER THEN 1 ELSE 0]

(* ------------------------------------------------------------------ *)
(* C1                                                                   *)
(* ------------------------------------------------------------------ *)
\* C1: an address returned by a successful buddy_alloc is not the address
\* of a block that is live (returned earlier and not freed since).
C1_NoAliasing ==
    [][(ret'.op = "alloc" /\ ret'.addr # NULL) => ret'.addr \notin LiveAddrs]_vars

\* an alloc has succeeded while other blocks were live
C1_Witness ==
    ret.op = "alloc" /\ ret.addr # NULL /\ Cardinality(live) >= 2

(* ------------------------------------------------------------------ *)
(* C2                                                                   *)
(* ------------------------------------------------------------------ *)
\* C2: every page of the region lies in exactly one block, free (its head
\* on the list of its order) or allocated; every block lies in the region;
\* the head of an allocated block is on no free list.
C2_Partition ==
    /\ \A q \in Pages : Covers(q) = 1
    /\ \A e \in FreeEntries(free_area) :
           BlockPages(free_area[e[1]][e[2]], e[1]) \subseteq Pages
    /\ \A b \in live :
           /\ BlockPages(ADDR_TO_PAGE(b.addr), b.order) \subseteq Pages
           /\ \A k \in Orders : ~OnList(free_area, ADDR_TO_PAGE(b.addr), k)

\* a state with blocks of both kinds, reached by splitting and by merging
C2_Witness ==
    /\ Cardinality(live) >= 2
    /\ Cardinality(FreeEntries(free_area)) >= 2
    /\ ret.op = "free"

(* ------------------------------------------------------------------ *)
(* C3                                                                   *)
(* ------------------------------------------------------------------ *)
Max(a, b) == IF a >= b THEN a ELSE b

\* C3: a request of 1 <= size <= 2^MAX_ORDER, sub-page sizes included, is
\* carried out without touching a list below MIN_ORDER, and when it
\* succeeds it returns an address in the region, aligned relative to
\* g_memory to 2^max(ceil(log2 size), MIN_ORDER).
C3_AlignedAnySize ==
    (ret.op = "alloc" /\ 1 <= ret.size /\ ret.size <= 2 ^ MAX_ORDER)
        => /\ status = "ok"
           /\ ret.addr # NULL =>
                  /\ InRegion(ret.addr)
                  /\ (ret.addr - g_memory) % (2 ^ Max(ret.order, MIN_ORDER)) = 0

(* ------------------------------------------------------------------ *)
(* C4                                                                   *)
(* ------------------------------------------------------------------ *)
\* C4: allocations up to the first failed one, then every returned block
\* freed once: one free block of MAX_ORDER at the base, nothing else free.
C4_FullCoalescing ==
    (phase = "drain" /\ live = {}) => SingleMaxBlock(free_area)

\* the last block of a sequence that filled the region has been freed
C4_Witness ==
    phase = "drain" /\ live = {} /\ ret.op = "free" /\ ret.order < MAX_ORDER

(* ------------------------------------------------------------------ *)
(* C5                                                                   *)
(* ------------------------------------------------------------------ *)
\* C5: buddy_alloc(size) with size > 2^MAX_ORDER returns NULL.
C5_TooLargeFails ==
    (ret.op = "alloc" /\ ret.size > 2 ^ MAX_ORDER) => ret.addr = NULL

\* a too large request has failed while the whole region was free
C5_Witness ==
    /\ ret.op = "alloc" /\ ret.size > 2 ^ MAX_ORDER
    /\ free_area[MAX_ORDER] # <<>>

(* ------------------------------------------------------------------ *)
(* C6                                                                   *)
(* ------------------------------------------------------------------ *)
\* C6: a request of order r in MIN_ORDER..MAX_ORDER fails exactly when the
\* lists of order r..MAX_ORDER are all empty; otherwise it returns a block
\* of order r: 2^r bytes leave the free lists and the head records r.
C6_FailsIffNoBlock ==
    [][(ret'.op = "alloc" /\ ret'.order \in Orders) =>
          /\ (ret'.addr = NULL) <=>
                 (\A k \in ret'.order .. MAX_ORDER : free_area[k] = <<>>)
          /\ ret'.addr # NULL =>
                 /\ [addr |-> ret'.addr, order |-> ret'.order] \in live'
                 /\ FreeBytes(free_area') = FreeBytes(free_area) - 2 ^ ret'.order
                 /\ blockOrder'[ADDR_TO_PAGE(ret'.addr)] = ret'.order]_vars

\* a request has failed although smaller blocks are free
C6_Witness ==
    /\ ret.op = "alloc" /\ ret.order \in Orders /\ ret.addr = NULL
    /\ \E k \in Orders : k < ret.order /\ free_area[k] # <<>>

(* ------------------------------------------------------------------ *)
(* C7                                                                   *)
(* ------------------------------------------------------------------ *)
\* C7: from any reachable state, a successful buddy_alloc(size) followed at
\* once by buddy_free of the address returned leaves on every free list the
\* set of blocks it held before; after a minimum-size alloc and its free as
\* the first two calls the region is one free block of MAX_ORDER again.
C7_RoundTrip ==
    /\ \A size \in ValidSizes :
           LET a == AllocResult(free_area, blockOrder, size)
           IN  (status = "ok" /\ a.addr # NULL) =>
                   ListSets(FreeResult(a.fa, a.pg, a.addr).fa) = ListSets(free_area)
    /\ (nops = 2 /\ ret.op = "free" /\ ret.order = MIN_ORDER)
           => SingleMaxBlock(free_area)

\* a minimum-size block was allocated right after buddy_init and freed
C7_Witness ==
    nops = 2 /\ ret.op = "free" /\ ret.order = MIN_ORDER /\ live = {}

(* ------------------------------------------------------------------ *)
(* C8                                                                   *)
(* ------------------------------------------------------------------ *)
\* C8: after buddy_alloc(2^MIN_ORDER) as the first call, buddy_dump counts
\* one free block at every order MIN_ORDER..MAX_ORDER-1 and none at MAX_ORDER.
C8_SplitCascade ==
    (nops = 1 /\ ret.op = "alloc" /\ ret.size = 2 ^ MIN_ORDER)
        => buddy_dump(free_area) = [k \in Orders |-> IF k = MAX_ORDER THEN 0 ELSE 1]

C8_Witness ==
    nops = 1 /\ ret.op = "alloc" /\ ret.size = 2 ^ MIN_ORDER /\ ret.addr # NULL

(* ------------------------------------------------------------------ *)
(* C9                                                                   *)
(* ------------------------------------------------------------------ *)
\* the last two calls freed two sibling blocks of the same order k
SiblingsFreed ==
    /\ ret.op = "free" /\ prev.op = "free"
    /\ ret.order = prev.order /\ ret.order \in MIN_ORDER .. (MAX_ORDER - 1)
    /\ ret.addr = BUDDY_ADDR(prev.addr, ret.order)

LowerPage == IF ret.addr < prev.addr THEN ADDR_TO_PAGE(ret.addr)
             ELSE ADDR_TO_PAGE(prev.addr)

\* the two orders of freeing two live blocks a and b
FreeBoth(a, b) ==
    LET r == FreeResult(free_area, blockOrder, a.addr)
    IN  FreeResult(r.fa, r.pg, b.addr).fa

\* C9 as stated: after two sibling blocks of order k were freed one after
\* the other, neither is on list k and the block made of the two, based at
\* the lower address, is on list k+1.
C9_MergedAtNextOrder ==
    SiblingsFreed =>
        /\ ~OnList(free_area, ADDR_TO_PAGE(ret.addr), ret.order)
        /\ ~OnList(free_area, ADDR_TO_PAGE(prev.addr), ret.order)
        /\ OnList(free_area, LowerPage, ret.order + 1)

\* C9 amended: after two sibling blocks of order k were freed one after the
\* other, neither is on list k and both lie in one free block of an order
\* j >= k+1, based at the lower address rounded down to a multiple of 2^j,
\* whose own buddy is not free (j = k+1 exactly when the buddy of the block
\* made of the two is not free); and the free lists come out the same
\* whichever of two live siblings is freed first.
C9_MergedUpward ==
    /\ SiblingsFreed =>
           /\ ~OnList(free_area, ADDR_TO_PAGE(ret.addr), ret.order)
           /\ ~OnList(free_area, ADDR_TO_PAGE(prev.addr), ret.order)
           /\ \E j \in (ret.order + 1) .. MAX_ORDER :
                  LET head == LowerPage - (LowerPage % (2 ^ (j - MIN_ORDER)))
                  IN  /\ OnList(free_area, head, j)
                      /\ \A m \in (ret.order + 1) .. MAX_ORDER :
                             m # j => ~OnList(free_area,
                                 LowerPage - (LowerPage % (2 ^ (m - MIN_ORDER))), m)
                      /\ j < MAX_ORDER =>
                             ~OnList(free_area,
                                     ADDR_TO_PAGE(BUDDY_ADDR(blockAddress(head), j)), j)
                      /\ (j = ret.order + 1) <=>
                             (ret.order + 1 = MAX_ORDER
                              \/ ~OnList(pre, ADDR_TO_PAGE(BUDDY_ADDR(
                                     blockAddress(LowerPage), ret.order + 1)),
                                     ret.order + 1))
    /\ \A a, b \in live :
           (status = "ok" /\ a.order = b.order /\ a.order < MAX_ORDER
            /\ b.addr = BUDDY_ADDR(a.addr, a.order))
               => FreeBoth(a, b) = FreeBoth(b, a)

\* two siblings were freed and the merge went on above the next order
C9_Witness ==
    SiblingsFreed /\ ~OnList(free_area, LowerPage, ret.order + 1)

(* ------------------------------------------------------------------ *)
(* C10                                                                  *)
(* ------------------------------------------------------------------ *)
\* C10: buddy_alloc(2^MIN_ORDER) as the first two calls: both succeed and
\* the two addresses are distinct and their offsets from g_memory differ
\* in the bit 2^MIN_ORDER and in no other bit.
C10_FirstTwoAreBuddies ==
    (nops = 2 /\ ret.op = "alloc" /\ prev.op = "alloc"
     /\ ret.size = 2 ^ MIN_ORDER /\ prev.size = 2 ^ MIN_ORDER)
        => /\ ret.addr # NULL /\ prev.addr # NULL
           /\ ret.addr # prev.addr
           /\ InRegion(ret.addr) /\ InRegion(prev.addr)
           /\ BitXor(ret.addr - g_memory, prev.addr - g_memory) = 2 ^ MIN_ORDER

C10_Witness ==
    /\ nops = 2 /\ ret.op = "alloc" /\ prev.op = "alloc"
    /\ ret.size = 2 ^ MIN_ORDER /\ prev.size = 2 ^ MIN_ORDER
    /\ ret.addr = BUDDY_ADDR(prev.addr, MIN_ORDER)


(* ------------------------------------------------------------------ *)
(* C11                                                                  *)
(* ------------------------------------------------------------------ *)
\* C11: right after buddy_init the MAX_ORDER list holds exactly one block,
\* headed by page 0, and every list of a lower order is empty.
C11_InitialState ==
    (nops = 0 /\ ret.op = "init") =>
        /\ free_area[MAX_ORDER] = <<0>>
        /\ \A k \in MIN_ORDER .. (MAX_ORDER - 1) : free_area[k] = <<>>
        /\ buddy_dump(free_area) = [k \in Orders |-> IF k = MAX_ORDER THEN 1 ELSE 0]

\* the state buddy_init leaves, before any call
C11_Witness ==
    nops = 0 /\ ret.op = "init" /\ live = {} /\ Len(free_area[MAX_ORDER]) = 1

(* ------------------------------------------------------------------ *)
(* C12                                                                  *)
(* ------------------------------------------------------------------ *)
\* the positions <<list, place>> at which page p is linked
Links(p) ==
    UNION {{<<k, n>> : n \in {m \in 1 .. Len(free_area[k]) : free_area[k][m] = p}}
              : k \in 0 .. MAX_ORDER}

\* C12: every page descriptor is linked on at most one free list, and at
\* most once on it.
C12_LinkedAtMostOnce ==
    \A p \in Pages : Cardinality(Links(p)) <= 1

\* two pages are linked on the same list, the last one by a free
C12_Witness ==
    /\ ret.op = "free"
    /\ \E k \in Orders : Len(free_area[k]) >= 2 /\ Head(free_area[k]) = ADDR_TO_PAGE(ret.addr)


(* ------------------------------------------------------------------ *)
(* C13                                                                  *)
(* ------------------------------------------------------------------ *)
\* C13: a successful buddy_alloc of order r takes its block from the
\* non-empty list of the lowest order i >= r and returns the base address
\* of that block; list i loses exactly that block, each list of order
\* r..i-1 gains exactly one block, the upper half at base + 2^order, and
\* the lists of order below r or above i are left as they were.
C13_MinimalSplit ==
    [][(ret'.op = "alloc" /\ ret'.addr # NULL) =>
          LET r == ret'.order
              S == {k \in r .. MAX_ORDER : free_area[k] # <<>>}
              i == CHOOSE k \in S : \A m \in S : k <= m
              left == ADDR_TO_PAGE(ret'.addr)
          IN  /\ r \in Orders /\ S # {}
              /\ OnList(free_area, left, i)
              /\ ret'.addr = blockAddress(left)
              /\ free_area'[i] = SelectSeq(free_area[i], LAMBDA x : x # left)
              /\ Len(free_area'[i]) = Len(free_area[i]) - 1
              /\ \A k \in r .. (i - 1) :
                     free_area'[k] =
                         <<ADDR_TO_PAGE(ret'.addr + 2 ^ k)>> \o free_area[k]
              /\ \A k \in Orders :
                     (k < r \/ k > i) => free_area'[k] = free_area[k]]_vars

\* the block returned was split off a larger one: its buddy is free
C13_Witness ==
    /\ ret.op = "alloc" /\ ret.addr # NULL /\ ret.order < MAX_ORDER
    /\ OnList(free_area, ADDR_TO_PAGE(BUDDY_ADDR(ret.addr, ret.order)), ret.order)
    /\ Cardinality(live) >= 2

(* ------------------------------------------------------------------ *)
(* C14                                                                  *)
(* ------------------------------------------------------------------ *)
\* C14: the blockOrder of the head page of every live block is the order
\* the block was allocated at, so the order buddy_free reads is an order of
\* MIN_ORDER..MAX_ORDER and never the -1 that buddy_init wrote.
C14_LiveHeadOrder ==
    /\ \A b \in live :
           /\ blockOrder[ADDR_TO_PAGE(b.addr)] = b.order
           /\ blockOrder[ADDR_TO_PAGE(b.addr)] # -1
    /\ ret.op = "free" => (ret.order \in Orders /\ ret.order # -1)

\* a block was freed while others, of different orders, stay live
C14_Witness ==
    /\ ret.op = "free"
    /\ \E a, b \in live : a.order # b.order


(* ------------------------------------------------------------------ *)
(* C15                                                                  *)
(* ------------------------------------------------------------------ *)
\* C15: every page linked on the free list of order k has blockOrder = k,
\* in every state from the one buddy_init leaves on.
C15_FreeHeadOrder ==
    \A k \in Orders : \A n \in 1 .. Len(free_area[k]) :
        blockOrder[free_area[k][n]] = k

(* ------------------------------------------------------------------ *)
(* C16                                                                  *)
(* ------------------------------------------------------------------ *)
\* the loop iterations of the last call, on the lists it found
LastCallSteps ==
    IF ret.op = "alloc" THEN AllocSteps(pre, ret.size)
    ELSE IF ret.op = "free"
         THEN MergeSteps(pre, ADDR_TO_PAGE(ret.addr), ret.order)
    ELSE [loop |-> 0, inner |-> 0]

\* C16 as stated: a call runs at most MAX_ORDER - MIN_ORDER + 1 loop
\* iterations in all, the split loop and the list scans counted.
C16_StepsBounded ==
    LastCallSteps.loop + LastCallSteps.inner <= MAX_ORDER - MIN_ORDER + 1

\* C16 amended: a call runs at most MAX_ORDER - MIN_ORDER + 1 iterations of
\* its outer loop (the scan of the orders in buddy_alloc, the merge loop in
\* buddy_free); on top of these the split loop of buddy_alloc runs at most
\* MAX_ORDER - MIN_ORDER times and the list scans of buddy_free run at most
\* once per block that is free when the call starts.
C16_LoopsBounded ==
    /\ LastCallSteps.loop <= MAX_ORDER - MIN_ORDER + 1
    /\ ret.op = "alloc" => LastCallSteps.inner <= MAX_ORDER - MIN_ORDER
    /\ ret.op = "free" =>
           LastCallSteps.inner <= Cardinality(FreeEntries(pre))

\* a free has walked a list of several blocks and run more than
\* MAX_ORDER - MIN_ORDER + 1 iterations in all
C16_Witness ==
    /\ ret.op = "free"
    /\ Len(pre[ret.order]) >= 2
    /\ LastCallSteps.loop + LastCallSteps.inner > MAX_ORDER - MIN_ORDER + 1


(* ------------------------------------------------------------------ *)
(* C17                                                                  *)
(* ------------------------------------------------------------------ *)
\* C17: the base of every free block on list k is a multiple of 2^k from
\* g_memory, and the base of every live block of order r a multiple of 2^r.
C17_Aligned ==
    /\ \A k \in Orders : \A n \in 1 .. Len(free_area[k]) :
           (blockAddress(free_area[k][n]) - g_memory) % (2 ^ k) = 0
    /\ \A b \in live : (b.addr - g_memory) % (2 ^ b.order) = 0

\* free blocks of two orders above MIN_ORDER and a live block, after a merge
C17_Witness ==
    /\ ret.op = "free" /\ live # {}
    /\ \E k \in (MIN_ORDER + 1) .. MAX_ORDER :
           free_area[k] # <<>> /\ Head(free_area[k]) # 0

(* ------------------------------------------------------------------ *)
(* C18                                                                  *)
(* ------------------------------------------------------------------ *)
\* C18: between calls no two free blocks of an order k < MAX_ORDER are
\* buddies: the buddy of a block on list k is not on list k.
C18_NoFreeBuddies ==
    \A k \in MIN_ORDER .. (MAX_ORDER - 1) : \A n \in 1 .. Len(free_area[k]) :
        ~OnList(free_area,
                ADDR_TO_PAGE(BUDDY_ADDR(blockAddress(free_area[k][n]), k)), k)

\* a free has left two blocks on one list, neither the buddy of the other
C18_Witness ==
    /\ ret.op = "free" /\ ret.order < MAX_ORDER
    /\ Len(free_area[ret.order]) >= 2
    /\ OnList(free_area, ADDR_TO_PAGE(ret.addr), ret.order)

(* ------------------------------------------------------------------ *)
(* C19                                                                  *)
(* ------------------------------------------------------------------ *)
\* C19: a buddy_alloc that returns NULL, for a size beyond 2^MAX_ORDER or
\* for want of a free block of order r..MAX_ORDER, leaves every free list
\* and the blockOrder of every page as they were.
C19_FailureChangesNothing ==
    [][(ret'.op = "alloc" /\ ret'.addr = NULL) =>
          (free_area' = free_area /\ blockOrder' = blockOrder)]_vars

\* a request within the region has failed while blocks are free and live
C19_Witness ==
    /\ ret.op = "alloc" /\ ret.addr = NULL /\ ret.size <= 2 ^ MAX_ORDER
    /\ live # {} /\ FreeEntries(free_area) # {}

====
